---- MODULE Spec2Model ----
(***************************************************************************)
(* The Community record of contracts/models/communities-alt-version.ts:    *)
(* the class _Community_ with its field initialisers, fromJSON, toJSON and *)
(* hash, the four coercion helpers asCircuitString, asPublicKey, asField   *)
(* and asArray, and the exported factory Community.                        *)
(*                                                                         *)
(* JavaScript strings are sequences of one-character strings; an optional  *)
(* value is a sequence of length 0 (undefined) or 1 (the value).  A call   *)
(* that can throw yields a record with field ok; ok = FALSE is the throw.  *)
(***************************************************************************)
EXTENDS Integers, Sequences, FiniteSets, TLC

VARIABLES inst, sibling, pre, input, op, outcome, serialized, hashed, calls

vars == <<inst, sibling, pre, input, op, outcome, serialized, hashed, calls>>

-----------------------------------------------------------------------------
(* Bounds of the model *)

\* an input object provides uid and at most MaxProvided optional fields
MaxProvided == 2

\* a patch passed to fromJSON on an existing instance provides uid and at
\* most MaxPatched optional fields
MaxPatched == 1

\* number of constructor and fromJSON calls in one behaviour of SpecSeq
MaxCalls == 2

\* number of reconstructions from the serialised form in one behaviour of Spec
MaxRoundTrips == 2

-----------------------------------------------------------------------------
(* JavaScript values *)

undefined == <<>>

Def(v) == <<v>>

Ok(v) == [ok |-> TRUE, val |-> v]

Throw == [ok |-> FALSE, val |-> 0]

Min(a, b) == IF a < b THEN a ELSE b

\* String.prototype.substring(0, n)
substring(s, n) == SubSeq(s, 1, Min(Len(s), n))

-----------------------------------------------------------------------------
(* snarkyjs: Field *)

digitValue ==
  [c \in {"0", "1", "2", "3", "4", "5", "6", "7", "8", "9"} |->
     CASE c = "0" -> 0 [] c = "1" -> 1 [] c = "2" -> 2 [] c = "3" -> 3
       [] c = "4" -> 4 [] c = "5" -> 5 [] c = "6" -> 6 [] c = "7" -> 7
       [] c = "8" -> 8 [] c = "9" -> 9]

digitChar == <<"0", "1", "2", "3", "4", "5", "6", "7", "8", "9">>

RECURSIVE DecimalValue(_)
DecimalValue(s) ==
  IF s = <<>> THEN 0
  ELSE 10 * DecimalValue(SubSeq(s, 1, Len(s) - 1)) + digitValue[s[Len(s)]]

\* Field(s) for a string s: the value of a decimal numeral; a text with any
\* other character makes the underlying parse throw.  The values met here
\* are far below the field modulus, so no reduction takes place, and no
\* caller of the model passes the empty text.
Field(s) ==
  IF \A i \in 1..Len(s) : s[i] \in DOMAIN digitValue
  THEN Ok(DecimalValue(s))
  ELSE Throw

\* Field.prototype.toString(): the canonical decimal numeral
RECURSIVE FieldToString(_)
FieldToString(n) ==
  IF n < 10 THEN <<digitChar[n + 1]>>
  ELSE Append(FieldToString(n \div 10), digitChar[(n % 10) + 1])

-----------------------------------------------------------------------------
(* snarkyjs: CircuitString *)

\* CircuitString.maxLength
maxLength == 128

\* the printable ASCII characters, code 32 (space) to 126 (tilde); the grave
\* accent, code 96, is written GRAVE
printable ==
  <<
     " ", "!", "\"", "#", "$", "%", "&", "'", "(", ")", "*", "+", ",", "-", ".", "/",
     "0", "1", "2", "3", "4", "5", "6", "7", "8", "9", ":", ";", "<", "=", ">", "?",
     "@", "A", "B", "C", "D", "E", "F", "G", "H", "I", "J", "K", "L", "M", "N", "O",
     "P", "Q", "R", "S", "T", "U", "V", "W", "X", "Y", "Z", "[", "\\", "]", "^", "_",
     "GRAVE", "a", "b", "c", "d", "e", "f", "g", "h", "i", "j", "k", "l", "m", "n", "o",
     "p", "q", "r", "s", "t", "u", "v", "w", "x", "y", "z", "{", "|", "}", "~"
  >>

charCode ==
  [c \in {printable[i] : i \in 1..Len(printable)} |->
     31 + CHOOSE i \in 1..Len(printable) : printable[i] = c]

\* CircuitString.fromString(s): the character codes of s padded with null
\* characters to maxLength; a longer string is refused.
CircuitStringFromString(s) ==
  IF Len(s) > maxLength THEN Throw
  ELSE Ok([i \in 1..maxLength |-> IF i <= Len(s) THEN charCode[s[i]] ELSE 0])

\* CircuitString.prototype.toString(): the characters joined, everything
\* outside the printable range (the null padding) removed
CircuitStringToString(cs) ==
  LET kept == SelectSeq(cs, LAMBDA v : v >= 32 /\ v <= 126)
  IN  [i \in 1..Len(kept) |-> printable[kept[i] - 31]]

\* CircuitString.prototype.toFields()
CircuitStringToFields(cs) == cs

-----------------------------------------------------------------------------
(* snarkyjs: PublicKey *)

\* PublicKey.empty()
PublicKeyEmpty == [x |-> 0, isOdd |-> 0]

\* the base58 texts that decode to a key, with the key each one encodes
Base58Keys ==
  << [text |-> <<"B", "6", "2", "q", "E">>, key |-> PublicKeyEmpty],
     [text |-> <<"B", "6", "2", "q", "A">>, key |-> [x |-> 7, isOdd |-> 1]],
     [text |-> <<"B", "6", "2", "q", "B">>, key |-> [x |-> 9, isOdd |-> 0]] >>

\* PublicKey.fromBase58(s): throws unless s is the encoding of a key
PublicKeyFromBase58(s) ==
  IF \E i \in 1..Len(Base58Keys) : Base58Keys[i].text = s
  THEN Ok(Base58Keys[CHOOSE i \in 1..Len(Base58Keys) : Base58Keys[i].text = s].key)
  ELSE Throw

\* PublicKey.prototype.toBase58()
PublicKeyToBase58(k) ==
  Base58Keys[CHOOSE i \in 1..Len(Base58Keys) : Base58Keys[i].key = k].text

\* PublicKey.prototype.toFields()
PublicKeyToFields(k) == <<k.x, k.isOdd>>

-----------------------------------------------------------------------------
(* snarkyjs: Poseidon, taken as injective on sequences of field elements *)

PoseidonHash(fields) == fields

-----------------------------------------------------------------------------
(* helpers/datetime.js *)

\* UTCDateTime.fromField(f).toString(): the text that Field() parses back
\* to f
UTCDateTimeToString(f) == FieldToString(f)

-----------------------------------------------------------------------------
(* The coercion helpers *)

\* asCircuitString falling back to the empty text, not to the value held
asCircuitStringBlank(s, defaulted) ==
  IF s = undefined THEN CircuitStringFromString(<<>>)
  ELSE CircuitStringFromString(substring(s[1], maxLength - 1))

asCircuitString(s, defaulted) ==
  IF s = undefined THEN Ok(defaulted)
  ELSE CircuitStringFromString(substring(s[1], maxLength - 1))

\* asPublicKey falling back to the value held when the text does not decode
asPublicKeyLenient(s, defaulted) ==
  IF s = undefined \/ ~PublicKeyFromBase58(s[1]).ok THEN Ok(defaulted)
  ELSE PublicKeyFromBase58(s[1])

asPublicKey(s, defaulted) ==
  IF s = undefined THEN Ok(defaulted)
  ELSE PublicKeyFromBase58(s[1])

asField(s, defaulted) ==
  IF s = undefined THEN Ok(defaulted)
  ELSE Field(s[1])

asArray(s, defaulted) ==
  IF s = undefined THEN Ok(defaulted)
  ELSE LET mapped == [i \in 1..Len(s[1]) |-> Field(s[1][i])]
       IN  IF \A i \in 1..Len(mapped) : mapped[i].ok
           THEN Ok([i \in 1..Len(mapped) |-> mapped[i].val])
           ELSE Throw

-----------------------------------------------------------------------------
(* class _Community_ *)

\* the text of a string literal of the source
QuestionMark == <<"?">>

EmptyText == <<>>

INITIAL == <<"I", "N", "I", "T", "I", "A", "L">>

\* the field initialisers with the state left blank
FieldInitializersBlankState ==
  [uid         |-> 0,
   accountId   |-> PublicKeyEmpty,
   fullName    |-> CircuitStringFromString(QuestionMark).val,
   description |-> CircuitStringFromString(EmptyText).val,
   state       |-> CircuitStringFromString(EmptyText).val,
   createdUTC  |-> 0,
   updatedUTC  |-> 0,
   approvedUTC |-> 0,
   admins      |-> <<>>,
   validators  |-> <<>>,
   auditors    |-> <<>>,
   plans       |-> <<>>]

\* The instance as the field initialisers leave it, before the constructor
\* calls fromJSON.  uid has no initialiser: the first statement of fromJSON
\* assigns it or throws, and a constructor that throws yields no instance.
FieldInitializers ==
  [uid         |-> 0,
   accountId   |-> PublicKeyEmpty,
   fullName    |-> CircuitStringFromString(QuestionMark).val,
   description |-> CircuitStringFromString(EmptyText).val,
   state       |-> CircuitStringFromString(INITIAL).val,
   createdUTC  |-> 0,
   updatedUTC  |-> 0,
   approvedUTC |-> 0,
   admins      |-> <<>>,
   validators  |-> <<>>,
   auditors    |-> <<>>,
   plans       |-> <<>>]

\* an assignment statement that still runs after an earlier one threw
AssignAndContinue(st, target, r) ==
  IF ~r.ok THEN [st EXCEPT !.thrown = TRUE]
  ELSE [st EXCEPT !.this[target] = r.val]

\* One assignment statement this.target = r of fromJSON: it is skipped when
\* an earlier statement threw, and it throws, assigning nothing, when the
\* conversion r threw.
Assign(st, target, r) ==
  IF st.thrown THEN st
  ELSE IF ~r.ok THEN [st EXCEPT !.thrown = TRUE]
  ELSE [st EXCEPT !.this[target] = r.val]

\* this.target = asPublicKey(s, this.target), and likewise for the others
AssignPublicKey(st, target, s) ==
  Assign(st, target, asPublicKey(s, st.this[target]))

AssignCircuitString(st, target, s) ==
  Assign(st, target, asCircuitString(s, st.this[target]))

AssignField(st, target, s) ==
  Assign(st, target, asField(s, st.this[target]))

AssignArray(st, target, s) ==
  Assign(st, target, asArray(s, st.this[target]))

\* fromJSON(json) run on the instance this.  json is the optional argument:
\* reading json.uid of undefined throws.  The result holds the instance as
\* the call leaves it and whether the call threw instead of returning this.
fromJSON(this, json) ==
  IF json = undefined THEN [this |-> this, thrown |-> TRUE]
  ELSE
  LET j   == json[1]
      s0  == [this |-> this, thrown |-> FALSE]
      s1  == Assign(s0, "uid", IF j.uid = undefined THEN Throw ELSE Field(j.uid[1]))
      s2  == AssignPublicKey(s1, "accountId", j.accountId)
      s3  == AssignCircuitString(s2, "fullName", j.fullName)
      s4  == AssignCircuitString(s3, "description", j.description)
      s5  == AssignCircuitString(s4, "state", j.state)
      s6  == AssignField(s5, "approvedUTC", j.approvedUTC)
      s7  == AssignField(s6, "createdUTC", j.createdUTC)
      s8  == AssignField(s7, "createdUTC", j.updatedUTC)
      s9  == AssignArray(s8, "admins", j.admins)
      s10 == AssignArray(s9, "validators", j.validators)
      s11 == AssignArray(s10, "auditors", j.auditors)
      s12 == AssignArray(s11, "plans", j.plans)
  IN  s12

\* new _Community_(json): the field initialisers, then this.fromJSON(json)
constructor(json) == fromJSON(FieldInitializers, json)

\* Community(params) == new _Community_().fromJSON(params)
Community(params) ==
  LET made == constructor(undefined)
  IN  IF made.thrown THEN made ELSE fromJSON(made.this, Def(params))

toJSON(this) ==
  [uid         |-> Def(FieldToString(this.uid)),
   accountId   |-> Def(PublicKeyToBase58(this.accountId)),
   fullName    |-> Def(CircuitStringToString(this.fullName)),
   description |-> Def(CircuitStringToString(this.description)),
   state       |-> Def(CircuitStringToString(this.state)),
   approvedUTC |-> Def(UTCDateTimeToString(this.approvedUTC)),
   createdUTC  |-> Def(UTCDateTimeToString(this.createdUTC)),
   updatedUTC  |-> Def(UTCDateTimeToString(this.updatedUTC)),
   admins      |-> Def([i \in 1..Len(this.admins) |-> FieldToString(this.admins[i])]),
   validators  |-> Def([i \in 1..Len(this.validators) |-> FieldToString(this.validators[i])]),
   auditors    |-> Def([i \in 1..Len(this.auditors) |-> FieldToString(this.auditors[i])]),
   plans       |-> Def([i \in 1..Len(this.plans) |-> FieldToString(this.plans[i])])]

\* the field elements with the three times in the order of their declaration
hashFieldsTimesAsDeclared(this) ==
  <<this.uid>>
    \o PublicKeyToFields(this.accountId)
    \o CircuitStringToFields(this.fullName)
    \o CircuitStringToFields(this.description)
    \o CircuitStringToFields(this.state)
    \o <<this.createdUTC, this.updatedUTC, this.approvedUTC>>
    \o this.admins
    \o this.validators
    \o this.auditors
    \o this.plans

\* the sequence of field elements hash() hands to Poseidon.hash
hashFields(this) ==
  <<this.uid>>
    \o PublicKeyToFields(this.accountId)
    \o CircuitStringToFields(this.fullName)
    \o CircuitStringToFields(this.description)
    \o CircuitStringToFields(this.state)
    \o <<this.approvedUTC, this.createdUTC, this.updatedUTC>>
    \o this.admins
    \o this.validators
    \o this.auditors
    \o this.plans

hash(this) == PoseidonHash(hashFields(this))

-----------------------------------------------------------------------------
(* The JSON objects handed to the factory, the constructor and fromJSON *)

OptionalFields ==
  <<"accountId", "fullName", "description", "state", "createdUTC",
    "updatedUTC", "approvedUTC", "admins", "validators", "auditors", "plans">>

TextFields == {"fullName", "description", "state"}

TimeFields == {"createdUTC", "updatedUTC", "approvedUTC"}

ListFields == {"admins", "validators", "auditors", "plans"}

\* a text of n characters: a b c a b c ...
Text(n) == [i \in 1..n |-> <<"a", "b", "c">>[((i - 1) % 3) + 1]]

NotBase58 == <<"n", "o", "t", "-", "b", "a", "s", "e", "5", "8">>

\* the texts a caller may give for a field: well-formed ones and, for every
\* parsed field, a malformed one; texts below, at and above maxLength
Values(f) ==
  CASE f = "uid" -> {<<"1">>, <<"2">>, <<"x">>}
    [] f = "accountId" -> {Base58Keys[2].text, Base58Keys[3].text, NotBase58}
    [] f \in TextFields -> {Text(2), Text(maxLength), Text(maxLength + 1)}
    [] f \in TimeFields -> {<<"5">>, <<"1", "2">>, <<"x">>}
    [] f \in ListFields ->
         {<< <<"2">>, <<"3">> >>, << <<"3">>, <<"2">> >>, << <<"2">>, <<"x">> >>}

Provided(j) == {i \in 1..Len(OptionalFields) : j[OptionalFields[i]] # undefined}

UidOnly(u) ==
  [f \in {"uid"} \cup {OptionalFields[i] : i \in 1..Len(OptionalFields)} |->
     IF f = "uid" THEN Def(u) ELSE undefined]

\* the objects that give uid and at most k of the first n optional fields
RECURSIVE Objects(_, _)
Objects(n, k) ==
  IF n = 0 THEN {UidOnly(u) : u \in Values("uid")}
  ELSE LET less == Objects(n - 1, k)
           f    == OptionalFields[n]
       IN  less \cup
           UNION {{[j EXCEPT ![f] = Def(v)] : v \in Values(f)} :
                    j \in {o \in less : Cardinality(Provided(o)) < k}}

Inputs == Objects(Len(OptionalFields), MaxProvided)

Patches == Objects(Len(OptionalFields), MaxPatched)

-----------------------------------------------------------------------------
(* Operations on one instance: construction, serialisation, hashing and    *)
(* reconstruction from the serialised form                                 *)

Init ==
  /\ inst = undefined
  /\ sibling = undefined
  /\ pre = undefined
  /\ input = undefined
  /\ op = "none"
  /\ outcome = "none"
  /\ serialized = undefined
  /\ hashed = undefined
  /\ calls = 0

Outcome(r) == IF r.thrown THEN "thrown" ELSE "returned"

\* a caller evaluates Community(params)
Factory ==
  /\ op = "none"
  /\ \E params \in Inputs :
       LET r == Community(params)
       IN  /\ input' = Def(params)
           /\ inst' = IF r.thrown THEN undefined ELSE Def(r.this)
           /\ outcome' = Outcome(r)
  /\ op' = "Community"
  /\ calls' = calls + 1
  /\ UNCHANGED <<sibling, pre, serialized, hashed>>

\* new _Community_(j) is evaluated for the first time
New ==
  /\ op = "none"
  /\ \E j \in Inputs :
       LET r == constructor(Def(j))
       IN  /\ input' = Def(j)
           /\ inst' = IF r.thrown THEN undefined ELSE Def(r.this)
           /\ outcome' = Outcome(r)
  /\ op' = "new"
  /\ calls' = calls + 1
  /\ UNCHANGED <<sibling, pre, serialized, hashed>>

\* inst.toJSON()
ToJSON ==
  /\ inst # undefined
  /\ serialized' = Def(toJSON(inst[1]))
  /\ hashed' = undefined
  /\ pre' = inst
  /\ op' = "toJSON"
  /\ outcome' = "returned"
  /\ UNCHANGED <<inst, sibling, input, calls>>

\* inst.hash()
Hash ==
  /\ inst # undefined
  /\ hashed' = Def(hash(inst[1]))
  /\ serialized' = undefined
  /\ pre' = inst
  /\ op' = "hash"
  /\ outcome' = "returned"
  /\ UNCHANGED <<inst, sibling, input, calls>>

\* new _Community_(inst.toJSON()): the serialised form just obtained is
\* given to a fresh instance, which takes the place of inst
RoundTrip ==
  /\ op = "toJSON"
  /\ calls <= MaxRoundTrips
  /\ LET r == constructor(serialized)
     IN  /\ inst' = IF r.thrown THEN undefined ELSE Def(r.this)
         /\ outcome' = Outcome(r)
  /\ sibling' = inst
  /\ input' = serialized
  /\ op' = "roundtrip"
  /\ calls' = calls + 1
  /\ serialized' = undefined
  /\ hashed' = undefined
  /\ pre' = undefined

Next == Factory \/ New \/ ToJSON \/ Hash \/ RoundTrip

Spec == Init /\ [][Next]_vars

-----------------------------------------------------------------------------
(* Sequences of calls: instances are constructed one after another, and an *)
(* existing instance is populated again by fromJSON                        *)

\* new _Community_(j), possibly after other instances were made; the last
\* instance made before it is kept as sibling
Create ==
  /\ calls < MaxCalls
  /\ \E j \in Patches :
       LET r == constructor(Def(j))
       IN  /\ input' = Def(j)
           /\ inst' = IF r.thrown THEN inst ELSE Def(r.this)
           /\ sibling' = IF r.thrown \/ inst = undefined THEN sibling ELSE inst
           /\ outcome' = Outcome(r)
  /\ op' = "new"
  /\ pre' = undefined
  /\ calls' = calls + 1
  /\ UNCHANGED <<serialized, hashed>>

\* inst.fromJSON(j) on the instance that exists; a call that throws leaves
\* the instance as its statements left it
Populate ==
  /\ inst # undefined
  /\ calls < MaxCalls
  /\ \E j \in Patches :
       LET r == fromJSON(inst[1], Def(j))
       IN  /\ input' = Def(j)
           /\ inst' = Def(r.this)
           /\ outcome' = Outcome(r)
  /\ pre' = inst
  /\ op' = "fromJSON"
  /\ calls' = calls + 1
  /\ UNCHANGED <<sibling, serialized, hashed>>

NextSeq == Create \/ Populate

SpecSeq == Init /\ [][NextSeq]_vars

-----------------------------------------------------------------------------
(* Vocabulary of the properties *)

AllFields == {"uid"} \cup {OptionalFields[i] : i \in 1..Len(OptionalFields)}

\* a decimal numeral without leading zero
IsNumeral(s) ==
  /\ s # <<>>
  /\ \A i \in 1..Len(s) : s[i] \in {digitChar[d] : d \in 1..10}
  /\ Len(s) > 1 => s[1] # "0"

IsKeyText(s) == \E i \in 1..Len(Base58Keys) : Base58Keys[i].text = s

\* the value v given for field f is a canonical text of a value of the field
WellFormedValue(f, v) ==
  CASE f = "uid" \/ f \in TimeFields -> IsNumeral(v)
    [] f = "accountId" -> IsKeyText(v)
    [] f \in ListFields -> \A i \in 1..Len(v) : IsNumeral(v[i])
    [] f \in TextFields -> \A i \in 1..Len(v) : v[i] \in DOMAIN charCode

HasLetter(s) == \E i \in 1..Len(s) : s[i] \notin {digitChar[d] : d \in 1..10}

\* the value v given for field f is no text of a value of the field
MalformedValue(f, v) ==
  CASE f = "uid" \/ f \in TimeFields -> HasLetter(v)
    [] f = "accountId" -> ~IsKeyText(v)
    [] f \in ListFields -> \E i \in 1..Len(v) : HasLetter(v[i])
    [] f \in TextFields -> FALSE

Malformed(j) == \E f \in AllFields : j[f] # undefined /\ MalformedValue(f, j[f][1])

WellFormed(j) ==
  /\ j.uid # undefined
  /\ \A f \in AllFields : j[f] # undefined => WellFormedValue(f, j[f][1])

\* every text that j gives has at most n characters
TextsWithin(j, n) == \A f \in TextFields : j[f] # undefined => Len(j[f][1]) <= n

\* the statements of fromJSON in order, each named by the input field it reads
ReadOrder ==
  <<"uid", "accountId", "fullName", "description", "state", "approvedUTC",
    "createdUTC", "updatedUTC", "admins", "validators", "auditors", "plans">>

\* the field the statement that reads input field f assigns
Assigned(f) == IF f = "updatedUTC" THEN "createdUTC" ELSE f

\* the position in ReadOrder of the first statement whose input is malformed
FirstFailure(j) ==
  CHOOSE k \in 1..Len(ReadOrder) :
    /\ j[ReadOrder[k]] # undefined
    /\ MalformedValue(ReadOrder[k], j[ReadOrder[k]][1])
    /\ \A i \in 1..(k - 1) :
         j[ReadOrder[i]] # undefined => ~MalformedValue(ReadOrder[i], j[ReadOrder[i]][1])

-----------------------------------------------------------------------------
(* C1 *)

\* C1: the factory Community(params), called with well-formed params,
\* returns an instance whose fields are populated from params.
FactoryReturnsCommunity ==
  (op = "Community" /\ WellFormed(input[1]))
    => /\ outcome = "returned"
       /\ inst # undefined
       /\ inst[1].uid = DecimalValue(input[1].uid[1])

-----------------------------------------------------------------------------
(* C2 *)

\* C2: an instance constructed from an object that gives only uid holds that
\* uid and the declared default in every other field, whatever instance was
\* constructed and populated before it.
UidOnlyYieldsDefaults ==
  (op = "new" /\ outcome = "returned" /\ Provided(input[1]) = {})
    => /\ inst[1].uid = DecimalValue(input[1].uid[1])
       /\ inst[1].accountId = [x |-> 0, isOdd |-> 0]
       /\ CircuitStringToString(inst[1].fullName) = <<"?">>
       /\ CircuitStringToString(inst[1].description) = <<>>
       /\ CircuitStringToString(inst[1].state) = <<"I", "N", "I", "T", "I", "A", "L">>
       /\ inst[1].createdUTC = 0
       /\ inst[1].updatedUTC = 0
       /\ inst[1].approvedUTC = 0
       /\ inst[1].admins = <<>>
       /\ inst[1].validators = <<>>
       /\ inst[1].auditors = <<>>
       /\ inst[1].plans = <<>>

\* a uid-only instance was constructed after a sibling that holds a name of
\* its own and a different uid
UidOnlyAfterPopulatedSibling ==
  /\ op = "new" /\ outcome = "returned" /\ Provided(input[1]) = {}
  /\ sibling # undefined
  /\ CircuitStringToString(sibling[1].fullName) = Text(2)
  /\ sibling[1].uid # inst[1].uid

-----------------------------------------------------------------------------
(* C3 *)

\* C3: for every field that a well-formed input gives (texts within the
\* maximum length), the serialised form of the instance built from the input
\* gives the same value for that field.
SerializedEqualsInput ==
  (op = "toJSON" /\ WellFormed(input[1]) /\ TextsWithin(input[1], maxLength))
    => \A f \in AllFields :
         input[1][f] # undefined => serialized[1][f] = input[1][f]

-----------------------------------------------------------------------------
(* C4 *)

\* C4: a text of at most maxLength characters is stored unchanged, a longer
\* one is stored as its prefix of maxLength characters, and neither raises
\* an error.
TextStoredUpToMaxLength ==
  (op = "new" /\ WellFormed(input[1]))
    => /\ outcome = "returned"
       /\ \A f \in TextFields :
            input[1][f] # undefined =>
              CircuitStringToString(inst[1][f]) =
                IF Len(input[1][f][1]) <= maxLength
                THEN input[1][f][1]
                ELSE SubSeq(input[1][f][1], 1, maxLength)

-----------------------------------------------------------------------------
(* C5 *)

\* both objects give field f, with different values, and agree elsewhere
DifferOnlyIn(x, y, f) ==
  /\ x[f] # undefined
  /\ y[f] # undefined
  /\ x[f] # y[f]
  /\ \A g \in AllFields \ {f} : x[g] = y[g]

\* C5: two instances built from well-formed inputs that differ in exactly
\* one field hand different sequences of field elements to the hash
\* primitive.
SingleFieldChangeChangesHash ==
  (op = "hash" /\ WellFormed(input[1]) /\ TextsWithin(input[1], maxLength - 1))
    => \A y \in Inputs :
         ( /\ WellFormed(y)
           /\ TextsWithin(y, maxLength - 1)
           /\ \E f \in AllFields : DifferOnlyIn(input[1], y, f) )
           => hash(constructor(Def(y)).this) # hashed[1]

-----------------------------------------------------------------------------
(* C6 *)

\* C6: hash() applies the hash primitive to the field elements of uid,
\* accountId, fullName, description, state, approvedUTC, createdUTC,
\* updatedUTC, admins, validators, auditors, plans, in this order, and
\* leaves the instance as it was.
HashInputInDeclaredOrder ==
  op = "hash" =>
    LET h  == hashed[1]
        t  == inst[1]
        n  == maxLength
        a  == 6 + 3 * n
        v  == a + Len(t.admins)
        u  == v + Len(t.validators)
        p  == u + Len(t.auditors)
    IN  /\ inst = pre
        /\ h[1] = t.uid
        /\ SubSeq(h, 2, 3) = <<t.accountId.x, t.accountId.isOdd>>
        /\ SubSeq(h, 4, 3 + n) = t.fullName
        /\ SubSeq(h, 4 + n, 3 + 2 * n) = t.description
        /\ SubSeq(h, 4 + 2 * n, 3 + 3 * n) = t.state
        /\ h[4 + 3 * n] = t.approvedUTC
        /\ h[5 + 3 * n] = t.createdUTC
        /\ h[6 + 3 * n] = t.updatedUTC
        /\ SubSeq(h, a + 1, v) = t.admins
        /\ SubSeq(h, v + 1, u) = t.validators
        /\ SubSeq(h, u + 1, p) = t.auditors
        /\ SubSeq(h, p + 1, Len(h)) = t.plans
        /\ Len(h) = p + Len(t.plans)

\* an instance with a creation time, no approval time and two validators
\* was hashed
HashedTimesAndList ==
  /\ op = "hash"
  /\ inst[1].createdUTC = 5
  /\ inst[1].approvedUTC = 0
  /\ inst[1].validators = <<3, 2>>

-----------------------------------------------------------------------------
(* C7 *)

\* C7: when the input gives a malformed uid, accountId, timestamp or list
\* entry, construction throws: no instance is returned, so no default
\* stands in for the malformed value.
MalformedInputThrows ==
  (op = "new" /\ Malformed(input[1]))
    => outcome = "thrown" /\ inst = undefined

\* construction was refused for an accountId that is no base58 key text
\* while the uid was well-formed
RefusedBadAccountId ==
  /\ op = "new"
  /\ outcome = "thrown"
  /\ input[1].uid = Def(<<"1">>)
  /\ input[1].accountId = Def(NotBase58)
  /\ inst = undefined

-----------------------------------------------------------------------------
(* C8 *)

\* C8: constructing a fresh instance from the serialised form of an
\* instance reproduces all twelve fields of that instance.
RoundTripReproduces ==
  op = "roundtrip" => outcome = "returned" /\ inst = sibling

-----------------------------------------------------------------------------
(* C9 *)

\* C9: a fromJSON call on an existing instance that fails has modified no
\* field of the instance.
FailedCallLeavesInstanceUntouched ==
  (op = "fromJSON" /\ outcome = "thrown") => inst = pre

\* C9 as amended: a fromJSON call on an existing instance that fails has
\* modified no field other than those assigned by the statements that
\* precede the failing one; when uid is not the malformed value, uid already
\* holds the new uid.
FailedCallKeepsUnreachedFields ==
  (op = "fromJSON" /\ outcome = "thrown") =>
    LET k    == FirstFailure(input[1])
        done == {Assigned(ReadOrder[i]) : i \in 1..(k - 1)}
    IN  /\ \A f \in AllFields \ done : inst[1][f] = pre[1][f]
        /\ k > 1 => inst[1].uid = DecimalValue(input[1].uid[1])

\* a failed call left an instance that differs from the one it was given
FailedCallChangedUid ==
  /\ op = "fromJSON"
  /\ outcome = "thrown"
  /\ inst[1].uid # pre[1].uid
  /\ inst[1].accountId = pre[1].accountId

-----------------------------------------------------------------------------
(* C10 *)

\* C10: in every instance uid is set and fullName, description and state
\* hold texts of at most maxLength characters; a text field that a
\* successful fromJSON call was not given keeps the value it had before the
\* call.
TextsBoundedAndKept ==
  inst # undefined =>
    /\ inst[1].uid \in Nat
    /\ \A f \in TextFields :
         /\ Len(inst[1][f]) = maxLength
         /\ Len(CircuitStringToString(inst[1][f])) <= maxLength
    /\ (op = "fromJSON" /\ outcome = "returned") =>
         \A f \in TextFields : input[1][f] = undefined => inst[1][f] = pre[1][f]

\* an instance whose name was cut on construction was given an over-long
\* description and no name by a later successful call
KeptCutNameAcrossCall ==
  /\ op = "fromJSON"
  /\ outcome = "returned"
  /\ input[1].fullName = undefined
  /\ input[1].description = Def(Text(maxLength + 1))
  /\ CircuitStringToString(inst[1].fullName) = Text(maxLength - 1)
  /\ CircuitStringToString(inst[1].description) = Text(maxLength - 1)

====
